---- MODULE Spec2Model ----
(***************************************************************************)
(* Model of the Node.js gateway of salesforce-mcp-neo4j-demo                *)
(* (src/gateway/Gateway3App.js) and of the gateway listing of the README    *)
(* (src/unnamed/part_000).  Three routes, /method1, /method2 and /no-rag,   *)
(* compose a translation call (OpenAI), a tool call over one shared MCP     *)
(* connection and a summarisation call into one response per request.       *)
(*                                                                         *)
(* JavaScript strings are sequences of one-character atoms, JavaScript     *)
(* values are tagged records [t, v], and every await of a handler is a     *)
(* point where another request may run.                                    *)
(***************************************************************************)
EXTENDS Naturals, Sequences, FiniteSets, TLC

(***************************************************************************)
(* Characters and strings                                                  *)
(***************************************************************************)
BT == "BT"
LF == "LF"
SP == "SP"
QT == "QT"

Whitespace == {LF, SP}

Letters == {"M", "N", "c"}

\* a cut-down String.prototype.trim: both ends lose their whitespace
RECURSIVE TrimLeft(_)
TrimLeft(s) ==
  IF s = <<>> THEN <<>>
  ELSE IF Head(s) \in Whitespace THEN TrimLeft(Tail(s)) ELSE s

RECURSIVE TrimRight(_)
TrimRight(s) ==
  IF s = <<>> THEN <<>>
  ELSE IF s[Len(s)] \in Whitespace THEN TrimRight(SubSeq(s, 1, Len(s) - 1)) ELSE s

Trim(s) == TrimRight(TrimLeft(s))

StartsWithFence(s) == Len(s) >= 3 /\ s[1] = BT /\ s[2] = BT /\ s[3] = BT

RECURSIVE DropLetters(_)
DropLetters(s) ==
  IF s # <<>> /\ Head(s) \in Letters THEN DropLetters(Tail(s)) ELSE s

DropOneNewline(s) == IF s # <<>> /\ Head(s) = LF THEN Tail(s) ELSE s

\* s.replace(/BT BT BT [a-zA-Z]* LF?/g, ''): leftmost, greedy, non-overlapping
RECURSIVE ReplaceFenceOpen(_)
ReplaceFenceOpen(s) ==
  IF s = <<>> THEN <<>>
  ELSE IF StartsWithFence(s)
       THEN ReplaceFenceOpen(DropOneNewline(DropLetters(SubSeq(s, 4, Len(s)))))
       ELSE <<Head(s)>> \o ReplaceFenceOpen(Tail(s))

\* s.replace(/BT BT BT/g, '')
RECURSIVE ReplaceFence(_)
ReplaceFence(s) ==
  IF s = <<>> THEN <<>>
  ELSE IF StartsWithFence(s)
       THEN ReplaceFence(SubSeq(s, 4, Len(s)))
       ELSE <<Head(s)>> \o ReplaceFence(Tail(s))

\* lines 48-49 of translateToCypher, applied to the completion's text
StripFences(content) == Trim(ReplaceFence(ReplaceFenceOpen(Trim(content))))

RECURSIVE HasFence(_)
HasFence(s) ==
  IF Len(s) < 3 THEN FALSE
  ELSE StartsWithFence(s) \/ HasFence(Tail(s))

(***************************************************************************)
(* JavaScript values                                                       *)
(***************************************************************************)
Undefined == [t |-> "undefined", v |-> <<>>]
Null == [t |-> "null", v |-> <<>>]
Str(s) == [t |-> "string", v |-> s]
Num(d) == [t |-> "number", v |-> <<d>>]
Bool(b) == [t |-> "boolean", v |-> <<b>>]
Arr(elems) == [t |-> "array", v |-> elems]
Obj(pairs) == [t |-> "object", v |-> pairs]

\* ToBoolean, as || and && apply it
Truthy(x) ==
  CASE x.t = "undefined" -> FALSE
    [] x.t = "null" -> FALSE
    [] x.t = "string" -> x.v # <<>>
    [] x.t = "number" -> x.v # <<"0">>
    [] x.t = "boolean" -> x.v = <<"true">>
    [] OTHER -> TRUE

\* a || b
Or(a, b) == IF Truthy(a) THEN a ELSE b

Nullish(x) == x.t \in {"undefined", "null"}

\* o[k] of an object: the last pair with that key wins; undefined when absent
RECURSIVE Lookup(_, _)
Lookup(pairs, k) ==
  IF pairs = <<>> THEN Undefined
  ELSE IF pairs[Len(pairs)][1] = k THEN pairs[Len(pairs)][2]
       ELSE Lookup(SubSeq(pairs, 1, Len(pairs) - 1), k)

\* x.k where x is known not to be nullish; a property name is a one-atom string
Get(x, k) == IF x.t = "object" THEN Lookup(x.v, <<k>>) ELSE Undefined

\* x?.k
OptGet(x, k) == IF Nullish(x) THEN Undefined ELSE Get(x, k)

\* x?.[0]
OptFirst(x) ==
  IF x.t = "array" /\ x.v # <<>> THEN x.v[1] ELSE Undefined

(***************************************************************************)
(* JSON text: what the tool server writes into a text block, and           *)
(* JSON.parse of it                                                        *)
(***************************************************************************)
Digits == {"0", "1"}

Fail == [ok |-> FALSE, val |-> Undefined, rest |-> <<>>]

Done(val, rest) == [ok |-> TRUE, val |-> val, rest |-> rest]

\* the characters of a string literal up to its closing quote
RECURSIVE UntilQuote(_)

Prepend(ch, r) == IF r.ok THEN Done(Str(<<ch>> \o r.val.v), r.rest) ELSE Fail

UntilQuote(s) ==
  IF s = <<>> THEN Fail
  ELSE IF Head(s) = QT THEN Done(Str(<<>>), Tail(s))
       ELSE Prepend(Head(s), UntilQuote(Tail(s)))

RECURSIVE ParseValue(_)
RECURSIVE ParseElements(_, _)
RECURSIVE ParseMembers(_, _)

\* after an element: "," and another element, or "]"
ElementsNext(val, t, acc) ==
  IF t = <<>> THEN Fail
  ELSE IF Head(t) = "]" THEN Done(Arr(Append(acc, val)), Tail(t))
  ELSE IF Head(t) = "," THEN ParseElements(Tail(t), Append(acc, val))
  ELSE Fail

ElementsAfter(r, acc) == IF r.ok THEN ElementsNext(r.val, TrimLeft(r.rest), acc) ELSE Fail

ParseElements(s, acc) == ElementsAfter(ParseValue(s), acc)

\* after a member: "," and another member, or "}"
MembersNext(key, val, t, acc) ==
  IF t = <<>> THEN Fail
  ELSE IF Head(t) = "}" THEN Done(Obj(Append(acc, <<key, val>>)), Tail(t))
  ELSE IF Head(t) = "," THEN ParseMembers(Tail(t), Append(acc, <<key, val>>))
  ELSE Fail

MemberValue(key, r, acc) ==
  IF r.ok THEN MembersNext(key, r.val, TrimLeft(r.rest), acc) ELSE Fail

MemberColon(key, c, acc) ==
  IF c # <<>> /\ Head(c) = ":" THEN MemberValue(key, ParseValue(Tail(c)), acc) ELSE Fail

MemberKey(k, acc) == IF k.ok THEN MemberColon(k.val.v, TrimLeft(k.rest), acc) ELSE Fail

MemberStart(s0, acc) ==
  IF s0 # <<>> /\ Head(s0) = QT THEN MemberKey(UntilQuote(Tail(s0)), acc) ELSE Fail

\* a member is a string literal, ":" and a value
ParseMembers(s, acc) == MemberStart(TrimLeft(s), acc)

ArrayBody(r) ==
  IF r # <<>> /\ Head(r) = "]" THEN Done(Arr(<<>>), Tail(r)) ELSE ParseElements(r, <<>>)

ObjectBody(r) ==
  IF r # <<>> /\ Head(r) = "}" THEN Done(Obj(<<>>), Tail(r)) ELSE ParseMembers(r, <<>>)

ValueAt(h, r) ==
  CASE h = "null" -> Done(Null, r)
    [] h \in {"true", "false"} -> Done(Bool(h), r)
    [] h \in Digits -> Done(Num(h), r)
    [] h = QT -> UntilQuote(r)
    [] h = "[" -> ArrayBody(TrimLeft(r))
    [] h = "{" -> ObjectBody(TrimLeft(r))
    [] OTHER -> Fail

ValueStart(s0) == IF s0 = <<>> THEN Fail ELSE ValueAt(Head(s0), Tail(s0))

ParseValue(s) == ValueStart(TrimLeft(s))

\* the whole text must be one value
WholeText(r) == IF r.ok /\ TrimLeft(r.rest) = <<>> THEN Done(r.val, <<>>) ELSE Fail

\* JSON.parse(text): ok is FALSE where it throws a SyntaxError
JsonParse(text) ==
  IF text.t = "null" THEN Done(Null, <<>>)
  ELSE IF text.t # "string" THEN Fail
  ELSE WholeText(ParseValue(text.v))

RECURSIVE JsonChars(_)
RECURSIVE JoinElements(_)
RECURSIVE JoinMembers(_)

JoinElements(elems) ==
  IF elems = <<>> THEN <<>>
  ELSE IF Len(elems) = 1 THEN JsonChars(elems[1])
       ELSE JsonChars(elems[1]) \o <<",", SP>> \o JoinElements(Tail(elems))

JoinMembers(pairs) ==
  <<QT>> \o pairs[1][1] \o <<QT, ":", SP>> \o JsonChars(pairs[1][2])
    \o (IF Len(pairs) = 1 THEN <<>> ELSE <<",", SP>> \o JoinMembers(Tail(pairs)))

\* json.dumps of the tool server: ", " and ": " separators
JsonChars(x) ==
  CASE x.t = "string" -> <<QT>> \o x.v \o <<QT>>
    [] x.t = "array" -> <<"[">> \o JoinElements(x.v) \o <<"]">>
    [] x.t = "object" ->
         IF x.v = <<>> THEN <<"{", "}">> ELSE <<"{">> \o JoinMembers(x.v) \o <<"}">>
    [] x.t = "null" -> <<"null">>
    [] OTHER -> x.v

JsonDumps(x) == Str(JsonChars(x))

(***************************************************************************)
(* The collaborators: what the request body, the completion service and    *)
(* the tool server can hand to the gateway                                 *)
(***************************************************************************)
MaxReqs == 2

Reqs == 1 .. MaxReqs

Key(k) == <<k>>

\* req.body.naturalLanguage
NaturalLanguages == {Str(<<"q1">>), Str(<<"q2">>)}

\* resp.choices[0].message.content of the translation call
LlmContents ==
  { Str(<<"M">>),
    Str(<<BT, BT, BT, "c", LF, "N", LF, BT, BT, BT>>),
    Str(<<BT, BT, BT, LF, BT, BT, BT>>),
    Null }

RowA == Obj(<< <<Key("a"), Num("1")>> >>)

RowSets == {Arr(<<>>), Arr(<<RowA>>)}

\* the query the retriever of text2cypher generated
RetrieverQueries == {<<"M">>, <<BT, BT, BT, "N">>}

TextBlock(text) == Obj(<< <<Key("type"), Str(<<"text">>)>>, <<Key("text"), text>> >>)

ImageBlock == Obj(<< <<Key("type"), Str(<<"image">>)>> >>)

\* the dictionaries text2cypher_tool returns
Text2CypherPayloads(query) ==
  { Obj(<< <<Key("input"), query>>, <<Key("cypher"), Str(q)>>, <<Key("graphData"), rows>> >>) :
      q \in RetrieverQueries, rows \in RowSets }
  \cup { Obj(<< <<Key("error"), Str(<<"NoCypher">>)>> >>) }

\* the dictionaries read_neo4j_cypher returns
ReadCypherPayloads(query) ==
  { Obj(<< <<Key("ok"), Bool("true")>>, <<Key("rows"), rows>> >>) : rows \in RowSets }
  \cup { Obj(<< <<Key("ok"), Bool("false")>>, <<Key("error"), Str(<<"Neo4jError">>)>> >>) }

ToolPayloads(name, query) ==
  IF name = "text2cypher" THEN Text2CypherPayloads(query) ELSE ReadCypherPayloads(query)

\* the dictionary of a call that found rows
OkPayload(name, query) ==
  IF name = "text2cypher"
  THEN Obj(<< <<Key("input"), query>>, <<Key("cypher"), Str(<<"M">>)>>,
              <<Key("graphData"), Arr(<<RowA>>)>> >>)
  ELSE Obj(<< <<Key("ok"), Bool("true")>>, <<Key("rows"), Arr(<<RowA>>)>> >>)

\* result.content of a resolved callTool: a list of content blocks whose text
\* block carries the tool's dictionary as JSON (first, or after another block),
\* a text block that is no JSON, or a structured payload
ToolContents(name, query) ==
  { Arr(<<TextBlock(JsonDumps(p))>>) : p \in ToolPayloads(name, query) }
  \cup { Arr(<<ImageBlock, TextBlock(JsonDumps(OkPayload(name, query)))>>),
          Arr(<<TextBlock(Str(<<"E", "r", "r">>))>>),
          Obj(<< <<Key("json"), Arr(<<RowA>>)>> >>) }

\* what groundedAnswer resolves with
SummaryTexts == {Str(<<"answer">>)}

(***************************************************************************)
(* State                                                                   *)
(***************************************************************************)
VARIABLES
  server,           \* the module's top level: "connecting", "listening", "exited"
  mcpClient,        \* connections opened so far; the client is the last one
  pc,               \* where each request's handler is suspended
  route,            \* the route a request arrived on
  naturalLanguage,  \* const { naturalLanguage } = req.body
  cypher,           \* the handler's local cypher
  result,           \* result.content / toolResult.content
  graphData,        \* method2's local graphData
  response,         \* what res sent: status, number of sends, body
  trace,            \* per request, the outbound calls and their outcomes
  strictMode,       \* whether the gateway file runs as an ES module (strict code)
  globalCypherQuery,  \* the README listing's undeclared cypherQuery
  globalGraphData   \* the README listing's undeclared graphData

VARIABLES
  envelope,         \* the tool response a normalization is applied to
  normalized,       \* what the normalization made of it
  question,         \* GraphRagPaths: this.question
  loading,          \* GraphRagPaths: this.loading
  results,          \* GraphRagPaths: this.results
  calls             \* GraphRagPaths: the runGateway calls and where each one is

\* what only the gateway of the README listing touches
globals == <<strictMode, globalCypherQuery, globalGraphData>>

\* what no handler of the gateway touches
outside == <<envelope, normalized, question, loading, results, calls>>

vars ==
  <<server, mcpClient, pc, route, naturalLanguage, cypher, result, graphData,
    response, trace, strictMode, globalCypherQuery, globalGraphData,
    envelope, normalized, question, loading, results, calls>>

\* an identifier no declaration and no assignment has created yet
Undeclared == [t |-> "undeclared", v |-> <<>>]

\* an event of a request: "call", a step is invoked (with the connection it
\* goes over, 0 for the steps that use none); "resolve" and "reject", the
\* outbound call of the step settled; "return" and "throw", code of the gateway
\* returned a value or threw
Ev(op, step, args, conn) == [op |-> op, step |-> step, args |-> args, conn |-> conn]

NoResponse == [status |-> 0, sends |-> 0, body |-> Undefined]

\* res.json(obj): JSON.stringify leaves out the keys whose value is undefined
RECURSIVE DropUndefined(_)
DropUndefined(pairs) ==
  IF pairs = <<>> THEN <<>>
  ELSE IF pairs[1][2] = Undefined THEN DropUndefined(Tail(pairs))
       ELSE <<pairs[1]>> \o DropUndefined(Tail(pairs))

ResJson(r, status, pairs) ==
  response' = [response EXCEPT ![r] =
    [status |-> status, sends |-> @.sends + 1, body |-> Obj(DropUndefined(pairs))]]

\* what a normalization gave: who ran it, whether it ran through, and the
\* query and the rows it assigned
Normalized(by, ok, c, g) == [by |-> by, ok |-> ok, cypher |-> c, graphData |-> g]

NotNormalized == Normalized("none", FALSE, Undefined, Undefined)

\* no normalization is being followed
NoNormalization ==
  /\ envelope = Undefined
  /\ normalized = NotNormalized

\* the runGateway calls the model follows
MaxCalls == 2

Calls == 1..MaxCalls

\* a call: where it is, its mode, the input it sent, what the Apex call settled with
NoCall == [pc |-> "idle", mode |-> "none", input |-> Undefined, outcome |-> Undefined]

\* GraphRagPaths after construction: question = '', loading = false, results = []
InitComponent ==
  /\ question = Str(<<>>)
  /\ loading = FALSE
  /\ results = Arr(<<>>)
  /\ calls = [c \in Calls |-> NoCall]

\* Gateway3App.js has import declarations and a top-level await: an ES module
Init ==
  /\ NoNormalization
  /\ InitComponent
  /\ strictMode = TRUE
  /\ globalCypherQuery = Undeclared
  /\ globalGraphData = Undeclared
  /\ server = "connecting"
  /\ mcpClient = 0
  /\ pc = [r \in Reqs |-> "idle"]
  /\ route = [r \in Reqs |-> "none"]
  /\ naturalLanguage = [r \in Reqs |-> Undefined]
  /\ cypher = [r \in Reqs |-> Undefined]
  /\ result = [r \in Reqs |-> Undefined]
  /\ graphData = [r \in Reqs |-> Undefined]
  /\ response = [r \in Reqs |-> NoResponse]
  /\ trace = [r \in Reqs |-> <<>>]

Log(r, events) == trace' = [trace EXCEPT ![r] = @ \o events]

Goto(r, label) == pc' = [pc EXCEPT ![r] = label]

\* a catch block that sends what the handler had computed along with the error
CatchPartial(r, message) ==
  /\ ResJson(r, 500, << <<Key("error"), message>>, <<Key("cypher"), cypher[r]>> >>)
  /\ Goto(r, "done")

\* the catch block of a handler: res.status(500).json({ error: err.message })
Catch(r, message) ==
  /\ ResJson(r, 500, << <<Key("error"), message>> >>)
  /\ Goto(r, "done")

(***************************************************************************)
(* Module top level: await mcpClient.connect(transport), then app.listen   *)
(***************************************************************************)
ConnectResolves ==
  /\ server = "connecting"
  /\ server' = "listening"
  /\ mcpClient' = mcpClient + 1
  /\ UNCHANGED <<pc, route, naturalLanguage, cypher, result, graphData, response, trace>>
  /\ UNCHANGED globals
  /\ UNCHANGED outside

\* the top-level await rejects: the module never reaches app.listen
ConnectRejects ==
  /\ server = "connecting"
  /\ server' = "exited"
  /\ UNCHANGED <<mcpClient, pc, route, naturalLanguage, cypher, result, graphData,
                 response, trace>>
  /\ UNCHANGED globals
  /\ UNCHANGED outside

(***************************************************************************)
(* translateToCypher                                                       *)
(***************************************************************************)
\* lines 48-50 on the completion's content: content.trim() throws a TypeError
\* on a content that is no string
translateToCypher(content) ==
  IF content.t = "string"
  THEN [ok |-> TRUE, val |-> Str(StripFences(content.v))]
  ELSE [ok |-> FALSE, val |-> Str(<<"TypeError">>)]

\* a handler up to its first await: the completion request of translateToCypher
StartTranslate(r, rt, nl) ==
  /\ server = "listening"
  /\ pc[r] = "idle"
  /\ route' = [route EXCEPT ![r] = rt]
  /\ naturalLanguage' = [naturalLanguage EXCEPT ![r] = nl]
  /\ Log(r, <<Ev("call", "translate", <<nl>>, 0)>>)
  /\ Goto(r, "awaitTranslate")
  /\ UNCHANGED <<server, mcpClient, cypher, result, graphData, response>>
  /\ UNCHANGED globals
  /\ UNCHANGED outside

\* a handler that executes the completion's text as it came, fences and all
TranslatedResumeRaw(r, content, q) ==
  IF q.ok
  THEN /\ cypher' = [cypher EXCEPT ![r] = q.val]
       /\ Log(r, <<Ev("resolve", "translate", <<content>>, 0),
                   Ev("return", "translate", <<q.val>>, 0),
                   Ev("call", "read_neo4j_cypher", <<content>>, mcpClient)>>)
       /\ Goto(r, "awaitTool")
       /\ UNCHANGED response
  ELSE /\ Log(r, <<Ev("resolve", "translate", <<content>>, 0),
                   Ev("throw", "translate", <<>>, 0)>>)
       /\ Catch(r, q.val)
       /\ UNCHANGED cypher

\* the handler after the completion resolved with content and
\* translateToCypher returned q or threw
TranslatedResume(r, content, q) ==
  IF q.ok
  THEN /\ cypher' = [cypher EXCEPT ![r] = q.val]
       /\ Log(r, <<Ev("resolve", "translate", <<content>>, 0),
                   Ev("return", "translate", <<q.val>>, 0),
                   Ev("call", "read_neo4j_cypher", <<q.val>>, mcpClient)>>)
       /\ Goto(r, "awaitTool")
       /\ UNCHANGED response
  ELSE /\ Log(r, <<Ev("resolve", "translate", <<content>>, 0),
                   Ev("throw", "translate", <<>>, 0)>>)
       /\ Catch(r, q.val)
       /\ UNCHANGED cypher

\* the completion resolved: the rest of translateToCypher, then callTool
Translated(r, rt, content) ==
  /\ pc[r] = "awaitTranslate"
  /\ route[r] = rt
  /\ TranslatedResume(r, content, translateToCypher(content))
  /\ UNCHANGED <<server, mcpClient, route, naturalLanguage, result, graphData>>
  /\ UNCHANGED globals
  /\ UNCHANGED outside

\* a handler that swallows the rejection and answers nothing
TranslateRejectsSilent(r) ==
  /\ pc[r] = "awaitTranslate"
  /\ Log(r, <<Ev("reject", "translate", <<>>, 0)>>)
  /\ Goto(r, "done")
  /\ UNCHANGED <<server, mcpClient, route, naturalLanguage, cypher, result, graphData,
                 response>>
  /\ UNCHANGED globals
  /\ UNCHANGED outside

\* the completion request rejected
TranslateRejects(r) ==
  /\ pc[r] = "awaitTranslate"
  /\ Log(r, <<Ev("reject", "translate", <<>>, 0)>>)
  /\ Catch(r, Str(<<"OpenAIError">>))
  /\ UNCHANGED <<server, mcpClient, route, naturalLanguage, cypher, result, graphData>>
  /\ UNCHANGED globals
  /\ UNCHANGED outside

\* the tool a route calls
ToolOf(rt) == IF rt \in {"method1", "no-rag"} THEN "read_neo4j_cypher" ELSE "text2cypher"

\* a rejected callTool that takes the process down after the 500 is sent
ToolRejectsFatal(r) ==
  /\ pc[r] = "awaitTool"
  /\ Log(r, <<Ev("reject", ToolOf(route[r]), <<>>, mcpClient)>>)
  /\ Catch(r, Str(<<"McpError">>))
  /\ server' = "exited"
  /\ UNCHANGED <<mcpClient, route, naturalLanguage, cypher, result, graphData>>
  /\ UNCHANGED globals
  /\ UNCHANGED outside

\* mcpClient.callTool rejected
ToolRejects(r) ==
  /\ pc[r] = "awaitTool"
  /\ Log(r, <<Ev("reject", ToolOf(route[r]), <<>>, mcpClient)>>)
  /\ Catch(r, Str(<<"McpError">>))
  /\ UNCHANGED <<server, mcpClient, route, naturalLanguage, cypher, result, graphData>>
  /\ UNCHANGED globals
  /\ UNCHANGED outside

\* groundedAnswer rejected
SummarizeRejects(r) ==
  /\ pc[r] = "awaitSummary"
  /\ Log(r, <<Ev("reject", "summarize", <<>>, 0)>>)
  /\ Catch(r, Str(<<"SummarizerError">>))
  /\ UNCHANGED <<server, mcpClient, route, naturalLanguage, cypher, result, graphData>>
  /\ UNCHANGED globals
  /\ UNCHANGED outside

(***************************************************************************)
(* app.post('/method1')                                                    *)
(***************************************************************************)
PostMethod1(r, nl) == StartTranslate(r, "method1", nl)

Method1Translated(r, content) == Translated(r, "method1", content)

\* the second argument of groundedAnswer on line 64
Method1Data(content) == Or(OptGet(content, "json"), OptGet(content, "text"))

\* callTool resolved: line 64 up to the await of groundedAnswer
Method1ToolResolves(r, content) ==
  /\ pc[r] = "awaitTool"
  /\ route[r] = "method1"
  /\ result' = [result EXCEPT ![r] = content]
  /\ Log(r, <<Ev("resolve", "read_neo4j_cypher", <<content>>, mcpClient),
              Ev("call", "summarize",
                 <<naturalLanguage[r], Method1Data(content), cypher[r]>>, 0)>>)
  /\ Goto(r, "awaitSummary")
  /\ UNCHANGED <<server, mcpClient, route, naturalLanguage, cypher, graphData, response>>
  /\ UNCHANGED globals
  /\ UNCHANGED outside

\* a /method1 that leaves the cypher out once another request has been answered
Method1SummarizedOnce(r, grounded) ==
  /\ pc[r] = "awaitSummary"
  /\ route[r] = "method1"
  /\ Log(r, <<Ev("resolve", "summarize", <<grounded>>, 0)>>)
  /\ ResJson(r, 200, << <<Key("mode"), Str(<<"method1">>)>>,
                        <<Key("cypher"),
                          IF \E s \in Reqs : pc[s] = "done" THEN Undefined ELSE cypher[r]>>,
                        <<Key("rawGrounding"), result[r]>>,
                        <<Key("groundedAnswer"), grounded>> >>)
  /\ Goto(r, "done")
  /\ UNCHANGED <<server, mcpClient, route, naturalLanguage, cypher, result, graphData>>
  /\ UNCHANGED globals
  /\ UNCHANGED outside

\* groundedAnswer resolved: line 66
Method1Summarized(r, grounded) ==
  /\ pc[r] = "awaitSummary"
  /\ route[r] = "method1"
  /\ Log(r, <<Ev("resolve", "summarize", <<grounded>>, 0)>>)
  /\ ResJson(r, 200, << <<Key("mode"), Str(<<"method1">>)>>,
                        <<Key("cypher"), cypher[r]>>,
                        <<Key("rawGrounding"), result[r]>>,
                        <<Key("groundedAnswer"), grounded>> >>)
  /\ Goto(r, "done")
  /\ UNCHANGED <<server, mcpClient, route, naturalLanguage, cypher, result, graphData>>
  /\ UNCHANGED globals
  /\ UNCHANGED outside

(***************************************************************************)
(* app.post('/method2')                                                    *)
(***************************************************************************)
\* a /method2 that is served while the connection is still being established
PostMethod2Early(r, nl) ==
  /\ server \in {"connecting", "listening"}
  /\ pc[r] = "idle"
  /\ route' = [route EXCEPT ![r] = "method2"]
  /\ naturalLanguage' = [naturalLanguage EXCEPT ![r] = nl]
  /\ Log(r, <<Ev("call", "text2cypher", <<nl>>, mcpClient)>>)
  /\ Goto(r, "awaitTool")
  /\ UNCHANGED <<server, mcpClient, cypher, result, graphData, response>>
  /\ UNCHANGED globals
  /\ UNCHANGED outside

\* line 81: the handler up to its first await
PostMethod2(r, nl) ==
  /\ server = "listening"
  /\ pc[r] = "idle"
  /\ route' = [route EXCEPT ![r] = "method2"]
  /\ naturalLanguage' = [naturalLanguage EXCEPT ![r] = nl]
  /\ Log(r, <<Ev("call", "text2cypher", <<nl>>, mcpClient)>>)
  /\ Goto(r, "awaitTool")
  /\ UNCHANGED <<server, mcpClient, cypher, result, graphData, response>>
  /\ UNCHANGED globals
  /\ UNCHANGED outside

Extracted(c, g) == [ok |-> TRUE, err |-> Undefined, cypher |-> c, graphData |-> g]

Thrown(message) ==
  [ok |-> FALSE, err |-> Str(<<message>>), cypher |-> Undefined, graphData |-> Undefined]

\* an extraction that does not look at the payload's rows field
ExtractParsedNoRows(parsed) ==
  IF Nullish(parsed) THEN Thrown("TypeError")
  ELSE Extracted(Or(Get(parsed, "cypher"), Get(parsed, "cypherQuery")),
                 Or(Get(parsed, "graphData"), Get(parsed, "data")))

\* lines 88-89 on the parsed payload
ExtractParsed(parsed) ==
  IF Nullish(parsed) THEN Thrown("TypeError")
  ELSE Extracted(Or(Get(parsed, "cypher"), Get(parsed, "cypherQuery")),
                 Or(Or(Get(parsed, "graphData"), Get(parsed, "rows")), Get(parsed, "data")))

\* line 87
ExtractText(p) == IF p.ok THEN ExtractParsed(p.val) ELSE Thrown("SyntaxError")

\* lines 86-90 on the block of line 85
ExtractBlock(blk) ==
  IF OptGet(blk, "type") = Str(<<"text">>)
  THEN ExtractText(JsonParse(Get(blk, "text")))
  ELSE Extracted(Undefined, Undefined)

\* lines 84-90: let cypher, graphData, set from the first content block when
\* it is a text block
ExtractMethod2(content) == ExtractBlock(OptFirst(content))

\* a handler that hands the summarizer its two arguments in the wrong order
Method2ResumeSwapped(r, content, x) ==
  IF x.ok
  THEN /\ cypher' = [cypher EXCEPT ![r] = x.cypher]
       /\ graphData' = [graphData EXCEPT ![r] = x.graphData]
       /\ Log(r, <<Ev("resolve", "text2cypher", <<content>>, mcpClient),
                   Ev("call", "summarize", <<naturalLanguage[r], x.cypher, x.graphData>>, 0)>>)
       /\ Goto(r, "awaitSummary")
       /\ UNCHANGED response
  ELSE /\ Log(r, <<Ev("resolve", "text2cypher", <<content>>, mcpClient),
                   Ev("throw", "parse", <<>>, 0)>>)
       /\ Catch(r, x.err)
       /\ UNCHANGED <<cypher, graphData>>

\* the handler after lines 84-90 gave x
Method2Resume(r, content, x) ==
  IF x.ok
  THEN /\ cypher' = [cypher EXCEPT ![r] = x.cypher]
       /\ graphData' = [graphData EXCEPT ![r] = x.graphData]
       /\ Log(r, <<Ev("resolve", "text2cypher", <<content>>, mcpClient),
                   Ev("call", "summarize", <<naturalLanguage[r], x.graphData, x.cypher>>, 0)>>)
       /\ Goto(r, "awaitSummary")
       /\ UNCHANGED response
  ELSE /\ Log(r, <<Ev("resolve", "text2cypher", <<content>>, mcpClient),
                   Ev("throw", "parse", <<>>, 0)>>)
       /\ Catch(r, x.err)
       /\ UNCHANGED <<cypher, graphData>>

\* callTool resolved: lines 84-92 up to the await of groundedAnswer
Method2ToolResolves(r, content) ==
  /\ pc[r] = "awaitTool"
  /\ route[r] = "method2"
  /\ result' = [result EXCEPT ![r] = content]
  /\ Method2Resume(r, content, ExtractMethod2(content))
  /\ UNCHANGED <<server, mcpClient, route, naturalLanguage>>
  /\ UNCHANGED globals
  /\ UNCHANGED outside

\* a /method2 that answers under the label of /method1
Method2SummarizedLabel(r, grounded) ==
  /\ pc[r] = "awaitSummary"
  /\ route[r] = "method2"
  /\ Log(r, <<Ev("resolve", "summarize", <<grounded>>, 0)>>)
  /\ ResJson(r, 200, << <<Key("mode"), Str(<<"method1">>)>>,
                        <<Key("cypher"), cypher[r]>>,
                        <<Key("rawGrounding"), graphData[r]>>,
                        <<Key("groundedAnswer"), grounded>> >>)
  /\ Goto(r, "done")
  /\ UNCHANGED <<server, mcpClient, route, naturalLanguage, cypher, result, graphData>>
  /\ UNCHANGED globals
  /\ UNCHANGED outside

\* groundedAnswer resolved: line 93
Method2Summarized(r, grounded) ==
  /\ pc[r] = "awaitSummary"
  /\ route[r] = "method2"
  /\ Log(r, <<Ev("resolve", "summarize", <<grounded>>, 0)>>)
  /\ ResJson(r, 200, << <<Key("mode"), Str(<<"method2">>)>>,
                        <<Key("cypher"), cypher[r]>>,
                        <<Key("rawGrounding"), graphData[r]>>,
                        <<Key("groundedAnswer"), grounded>> >>)
  /\ Goto(r, "done")
  /\ UNCHANGED <<server, mcpClient, route, naturalLanguage, cypher, result, graphData>>
  /\ UNCHANGED globals
  /\ UNCHANGED outside

(***************************************************************************)
(* app.post('/no-rag')                                                     *)
(***************************************************************************)
PostNoRag(r, nl) == StartTranslate(r, "no-rag", nl)

NoRagTranslated(r, content) == Translated(r, "no-rag", content)

\* a bypass that answers with what method1 hands to the summarizer
NoRagToolResolvesData(r, content) ==
  /\ pc[r] = "awaitTool"
  /\ route[r] = "no-rag"
  /\ result' = [result EXCEPT ![r] = content]
  /\ Log(r, <<Ev("resolve", "read_neo4j_cypher", <<content>>, mcpClient)>>)
  /\ ResJson(r, 200, << <<Key("mode"), Str(<<"no-rag">>)>>,
                        <<Key("cypher"), cypher[r]>>,
                        <<Key("rawGrounding"), naturalLanguage[r]>>,
                        <<Key("groundedAnswer"), Method1Data(content)>> >>)
  /\ Goto(r, "done")
  /\ UNCHANGED <<server, mcpClient, route, naturalLanguage, cypher, graphData>>
  /\ UNCHANGED globals
  /\ UNCHANGED outside

\* callTool resolved: line 110
NoRagToolResolves(r, content) ==
  /\ pc[r] = "awaitTool"
  /\ route[r] = "no-rag"
  /\ result' = [result EXCEPT ![r] = content]
  /\ Log(r, <<Ev("resolve", "read_neo4j_cypher", <<content>>, mcpClient)>>)
  /\ ResJson(r, 200, << <<Key("mode"), Str(<<"no-rag">>)>>,
                        <<Key("cypher"), cypher[r]>>,
                        <<Key("rawGrounding"), naturalLanguage[r]>>,
                        <<Key("groundedAnswer"), content>> >>)
  /\ Goto(r, "done")
  /\ UNCHANGED <<server, mcpClient, route, naturalLanguage, cypher, graphData>>
  /\ UNCHANGED globals
  /\ UNCHANGED outside

(***************************************************************************)
(* The route table: app.post is called for /method1, /method2 and /no-rag  *)
(* and for nothing else before app.listen                                  *)
(***************************************************************************)
\* a request no route matches falls through the router: express answers 404
NotFound(r, path) ==
  response' = [response EXCEPT ![r] =
    [status |-> 404, sends |-> @.sends + 1, body |-> Str(<<"Cannot", SP, "GET", SP, path>>)]]

\* GET /health
GetHealth(r) ==
  /\ server = "listening"
  /\ pc[r] = "idle"
  /\ route' = [route EXCEPT ![r] = "health"]
  /\ NotFound(r, "/health")
  /\ Goto(r, "done")
  /\ UNCHANGED <<server, mcpClient, naturalLanguage, cypher, result, graphData, trace>>
  /\ UNCHANGED globals
  /\ UNCHANGED outside

(***************************************************************************)
(* The gateway of Gateway3App.js                                           *)
(***************************************************************************)
Next ==
  \/ ConnectResolves
  \/ ConnectRejects
  \/ \E r \in Reqs, nl \in NaturalLanguages : PostMethod1(r, nl)
  \/ \E r \in Reqs, nl \in NaturalLanguages : PostMethod2(r, nl)
  \/ \E r \in Reqs, nl \in NaturalLanguages : PostNoRag(r, nl)
  \/ \E r \in Reqs, content \in LlmContents : Method1Translated(r, content)
  \/ \E r \in Reqs, content \in LlmContents : NoRagTranslated(r, content)
  \/ \E r \in Reqs : TranslateRejects(r)
  \/ \E r \in Reqs : \E content \in ToolContents("read_neo4j_cypher", cypher[r]) :
        Method1ToolResolves(r, content)
  \/ \E r \in Reqs : \E content \in ToolContents("text2cypher", naturalLanguage[r]) :
        Method2ToolResolves(r, content)
  \/ \E r \in Reqs : \E content \in ToolContents("read_neo4j_cypher", cypher[r]) :
        NoRagToolResolves(r, content)
  \/ \E r \in Reqs : ToolRejects(r)
  \/ \E r \in Reqs, grounded \in SummaryTexts : Method1Summarized(r, grounded)
  \/ \E r \in Reqs, grounded \in SummaryTexts : Method2Summarized(r, grounded)
  \/ \E r \in Reqs : SummarizeRejects(r)
  \/ \E r \in Reqs : GetHealth(r)

Spec == Init /\ [][Next]_vars

(***************************************************************************)
(* The gateway of the README listing: app.post('/method2') assigns         *)
(* cypherQuery and graphData without declaring them                        *)
(***************************************************************************)
InitReadme ==
  /\ NoNormalization
  /\ InitComponent
  /\ strictMode \in BOOLEAN
  /\ globalCypherQuery = Undeclared
  /\ globalGraphData = Undeclared
  /\ server = "connecting"
  /\ mcpClient = 0
  /\ pc = [r \in Reqs |-> "idle"]
  /\ route = [r \in Reqs |-> "none"]
  /\ naturalLanguage = [r \in Reqs |-> Undefined]
  /\ cypher = [r \in Reqs |-> Undefined]
  /\ result = [r \in Reqs |-> Undefined]
  /\ graphData = [r \in Reqs |-> Undefined]
  /\ response = [r \in Reqs |-> NoResponse]
  /\ trace = [r \in Reqs |-> <<>>]

\* the handler up to const client = await mcpClientPromise
ReadmePostMethod2(r, nl) ==
  /\ server = "listening"
  /\ pc[r] = "idle"
  /\ route' = [route EXCEPT ![r] = "readme-method2"]
  /\ naturalLanguage' = [naturalLanguage EXCEPT ![r] = nl]
  /\ Goto(r, "awaitClient")
  /\ UNCHANGED <<server, mcpClient, cypher, result, graphData, response, trace>>
  /\ UNCHANGED globals
  /\ UNCHANGED outside

\* the client promise resolved: client.callTool of text2cypher
ReadmeClientResolves(r) ==
  /\ pc[r] = "awaitClient"
  /\ Log(r, <<Ev("call", "text2cypher", <<naturalLanguage[r]>>, mcpClient)>>)
  /\ Goto(r, "awaitTool")
  /\ UNCHANGED <<server, mcpClient, route, naturalLanguage, cypher, result, graphData,
                 response>>
  /\ UNCHANGED globals
  /\ UNCHANGED outside

ReadmeExtracted(a, c, g) ==
  [ok |-> TRUE, assigns |-> a, err |-> Undefined, cypherQuery |-> c, graphData |-> g]

ReadmeThrown(message) ==
  [ok |-> FALSE, assigns |-> FALSE, err |-> Str(<<message>>), cypherQuery |-> Undefined,
   graphData |-> Undefined]

\* lines 203-204 of the listing on the parsed payload
ReadmeExtractParsed(parsed) ==
  IF Nullish(parsed) THEN ReadmeThrown("TypeError")
  ELSE ReadmeExtracted(TRUE,
         Or(Or(Get(parsed, "cypher"), Get(parsed, "cypherQuery")),
            OptGet(Get(parsed, "metadata"), "cypher")),
         Or(Or(Or(Get(parsed, "graphData"), Get(parsed, "rows")), Get(parsed, "records")),
            Get(parsed, "data")))

\* line 202
ReadmeExtractText(p) ==
  IF p.ok THEN ReadmeExtractParsed(p.val) ELSE ReadmeThrown("SyntaxError")

\* lines 201-205 on the block of line 200
ReadmeExtractBlock(contentBlock) ==
  IF OptGet(contentBlock, "type") = Str(<<"text">>) /\ Truthy(Get(contentBlock, "text"))
  THEN ReadmeExtractText(JsonParse(Get(contentBlock, "text")))
  ELSE ReadmeExtracted(FALSE, Undefined, Undefined)

\* lines 200-205 of the listing: what the if block assigns, if it runs
ReadmeExtract(content) == ReadmeExtractBlock(OptFirst(content))

\* the value an identifier holds after the if block
ReadmeBinding(assigns, value, current) == IF assigns THEN value ELSE current

\* whether lines 203-212 throw a ReferenceError: in strict code the assignment
\* to an undeclared identifier throws, in sloppy code it creates a property of
\* the global object; reading an identifier nothing has created throws in both
ReadmeReferenceError(x, strict, c, g) ==
  \/ x.assigns /\ strict
  \/ ReadmeBinding(x.assigns, x.cypherQuery, c) = Undeclared
  \/ ReadmeBinding(x.assigns, x.graphData, g) = Undeclared

\* the handler after lines 200-205 gave x
ReadmeMethod2Resume(r, content, x) ==
  IF ~x.ok
  THEN /\ Log(r, <<Ev("resolve", "text2cypher", <<content>>, mcpClient),
                   Ev("throw", "parse", <<>>, 0)>>)
       /\ Catch(r, x.err)
       /\ UNCHANGED <<globalCypherQuery, globalGraphData>>
  ELSE IF ReadmeReferenceError(x, strictMode, globalCypherQuery, globalGraphData)
  THEN /\ Log(r, <<Ev("resolve", "text2cypher", <<content>>, mcpClient),
                   Ev("throw", "reference", <<>>, 0)>>)
       /\ Catch(r, Str(<<"ReferenceError">>))
       /\ UNCHANGED <<globalCypherQuery, globalGraphData>>
  ELSE /\ globalCypherQuery' = ReadmeBinding(x.assigns, x.cypherQuery, globalCypherQuery)
       /\ globalGraphData' = ReadmeBinding(x.assigns, x.graphData, globalGraphData)
       /\ Log(r, <<Ev("resolve", "text2cypher", <<content>>, mcpClient),
                   Ev("call", "summarize",
                      <<naturalLanguage[r],
                        ReadmeBinding(x.assigns, x.graphData, globalGraphData),
                        ReadmeBinding(x.assigns, x.cypherQuery, globalCypherQuery)>>,
                      0)>>)
       /\ Goto(r, "awaitSummary")
       /\ UNCHANGED response

\* callTool resolved: lines 200-214 up to the await of groundedAnswer
ReadmeMethod2ToolResolves(r, content) ==
  /\ pc[r] = "awaitTool"
  /\ route[r] = "readme-method2"
  /\ result' = [result EXCEPT ![r] = content]
  /\ ReadmeMethod2Resume(r, content, ReadmeExtract(content))
  /\ UNCHANGED <<server, mcpClient, route, naturalLanguage, cypher, graphData, strictMode>>
  /\ UNCHANGED outside

\* groundedAnswer resolved: line 218 reads the two identifiers again
ReadmeMethod2Summarized(r, grounded) ==
  /\ pc[r] = "awaitSummary"
  /\ route[r] = "readme-method2"
  /\ Log(r, <<Ev("resolve", "summarize", <<grounded>>, 0)>>)
  /\ ResJson(r, 200, << <<Key("mode"), Str(<<"method2">>)>>,
                        <<Key("cypher"), globalCypherQuery>>,
                        <<Key("rawGrounding"), globalGraphData>>,
                        <<Key("groundedAnswer"), grounded>> >>)
  /\ Goto(r, "done")
  /\ UNCHANGED <<server, mcpClient, route, naturalLanguage, cypher, result, graphData>>
  /\ UNCHANGED globals
  /\ UNCHANGED outside

NextReadme ==
  \/ ConnectResolves
  \/ ConnectRejects
  \/ \E r \in Reqs, nl \in NaturalLanguages : ReadmePostMethod2(r, nl)
  \/ \E r \in Reqs : ReadmeClientResolves(r)
  \/ \E r \in Reqs : \E content \in ToolContents("text2cypher", naturalLanguage[r]) :
        ReadmeMethod2ToolResolves(r, content)
  \/ \E r \in Reqs : ToolRejects(r)
  \/ \E r \in Reqs, grounded \in SummaryTexts : ReadmeMethod2Summarized(r, grounded)
  \/ \E r \in Reqs : SummarizeRejects(r)

SpecReadme == InitReadme /\ [][NextReadme]_vars

(***************************************************************************)
(* The extraction of lines 84-90, and of lines 200-205 of the README       *)
(* listing, applied on its own to the tool responses of a bounded set      *)
(***************************************************************************)
\* the fields a parsed payload may carry, each with a value of its own
NormalizerFields ==
  << <<Key("cypherQuery"), Str(<<"Qd">>)>>,
     <<Key("cypher"), Str(<<"Qc">>)>>,
     <<Key("query"), Str(<<"Qq">>)>>,
     <<Key("metadata"), Obj(<< <<Key("cypher"), Str(<<"Qm">>)>> >>)>>,
     <<Key("graphData"), Arr(<< Obj(<< <<Key("g"), Num("1")>> >>) >>)>>,
     <<Key("records"), Arr(<< Obj(<< <<Key("r"), Num("1")>> >>) >>)>>,
     <<Key("rows"), Arr(<< Obj(<< <<Key("w"), Num("1")>> >>) >>)>>,
     <<Key("data"), Arr(<< Obj(<< <<Key("d"), Num("1")>> >>) >>)>> >>

\* every selection of the pairs of a list, in the list's order
RECURSIVE SubObjects(_)
SubObjects(pairs) ==
  IF pairs = <<>> THEN {<<>>}
  ELSE SubObjects(Tail(pairs)) \cup {<<Head(pairs)>> \o t : t \in SubObjects(Tail(pairs))}

\* the queries and the row sets of the payloads that carry just a query and rows
RoundTripQueries == {<<"M">>, <<"MATCH", SP, "(c:Case)", SP, "RETURN", SP, "c">>}

RoundTripRows == {Arr(<<>>), Arr(<<RowA>>), Arr(<<RowA, Obj(<< <<Key("b"), Str(<<"x">>)>> >>)>>)}

\* the payload {cypher: q, rows: r}, in either order of its keys
RoundTripPayloads(q, r) ==
  { Obj(<< <<Key("cypher"), Str(q)>>, <<Key("rows"), r>> >>),
    Obj(<< <<Key("rows"), r>>, <<Key("cypher"), Str(q)>> >>) }

\* a list of content blocks whose one text block is the JSON text of a payload
EnvelopeOf(payload) == Arr(<<TextBlock(JsonDumps(payload))>>)

Envelopes ==
  { EnvelopeOf(Obj(pairs)) : pairs \in SubObjects(NormalizerFields) }
  \cup UNION { { EnvelopeOf(p) : p \in RoundTripPayloads(q, r) } :
                q \in RoundTripQueries, r \in RoundTripRows }

gateway ==
  <<server, mcpClient, pc, route, naturalLanguage, cypher, result, graphData, response, trace>>

InitNormalizer ==
  /\ envelope \in Envelopes
  /\ normalized = NotNormalized
  /\ InitComponent
  /\ strictMode = TRUE
  /\ globalCypherQuery = Undeclared
  /\ globalGraphData = Undeclared
  /\ server = "connecting"
  /\ mcpClient = 0
  /\ pc = [r \in Reqs |-> "idle"]
  /\ route = [r \in Reqs |-> "none"]
  /\ naturalLanguage = [r \in Reqs |-> Undefined]
  /\ cypher = [r \in Reqs |-> Undefined]
  /\ result = [r \in Reqs |-> Undefined]
  /\ graphData = [r \in Reqs |-> Undefined]
  /\ response = [r \in Reqs |-> NoResponse]
  /\ trace = [r \in Reqs |-> <<>>]

\* lines 84-90 of Gateway3App.js on the envelope
NormalizeGateway ==
  /\ normalized.by = "none"
  /\ normalized' = Normalized("gateway", ExtractMethod2(envelope).ok,
                               ExtractMethod2(envelope).cypher,
                               ExtractMethod2(envelope).graphData)
  /\ UNCHANGED <<envelope, question, loading, results, calls>>
  /\ UNCHANGED gateway
  /\ UNCHANGED globals

\* lines 200-205 of the README listing on the envelope
NormalizeReadme ==
  /\ normalized.by = "none"
  /\ normalized' = Normalized("readme", ReadmeExtract(envelope).ok,
                               ReadmeExtract(envelope).cypherQuery,
                               ReadmeExtract(envelope).graphData)
  /\ UNCHANGED <<envelope, question, loading, results, calls>>
  /\ UNCHANGED gateway
  /\ UNCHANGED globals

NextNormalizer ==
  \/ NormalizeGateway
  \/ NormalizeReadme

SpecNormalizer == InitNormalizer /\ [][NextNormalizer]_vars

(***************************************************************************)
(* GraphRagPaths: the client component and its runGateway                  *)
(***************************************************************************)
\* what the user types into the question field
Questions == {Str(<<"q1">>), Str(<<"q2">>)}

\* the modes of runNoRag, runMethod1 and runMethod2
Modes == {"no-rag", "method1", "method2"}

RowFields ==
  <<"caseId", "product", "supplierPath", "totalCost", "riskIndex", "timeDelay", "qualityScore">>

CaseRow == Obj(<< <<Key("caseId"), Str(<<"c1">>)>>, <<Key("product"), Str(<<"p1">>)>> >>)

PathRow == Obj(<< <<Key("caseId"), Str(<<"c2">>)>>, <<Key("totalCost"), Num("1")>> >>)

\* what getMcpResponse resolves with: rows under groundedAnswer.rows, rows
\* under graphData, the gateway's own body (groundedAnswer is a text), nothing,
\* rows that are no list, and a list with a null row
ApexResponses ==
  { Obj(<< <<Key("groundedAnswer"), Obj(<< <<Key("rows"), Arr(<<CaseRow, PathRow>>)>> >>)>> >>),
    Obj(<< <<Key("graphData"), Arr(<<CaseRow>>)>> >>),
    Obj(<< <<Key("mode"), Str(<<"method1">>)>>, <<Key("groundedAnswer"), Str(<<"answer">>)>> >>),
    Null,
    Obj(<< <<Key("groundedAnswer"), Obj(<< <<Key("rows"), Str(<<"text">>)>> >>)>> >>),
    Obj(<< <<Key("graphData"), Arr(<<Null>>)>> >>) }

\* what getMcpResponse rejects with: the error of an Apex call, with its body
ApexErrors ==
  { Obj(<< <<Key("body"), Obj(<< <<Key("message"), Str(<<"e1">>)>> >>)>> >>),
    Obj(<< <<Key("body"), Obj(<< <<Key("message"), Str(<<"e2">>)>> >>)>> >>) }

\* line 181
DataRows(apexResponse) ==
  Or(Or(OptGet(OptGet(apexResponse, "groundedAnswer"), "rows"),
        OptGet(apexResponse, "graphData")),
     Arr(<<>>))

\* the idx of a row as a number
IdOf(idx) == Num(IF idx = 0 THEN "0" ELSE IF idx = 1 THEN "1" ELSE "2")

\* lines 182-191: the object the callback of map makes of a row
MappedRow(row, idx) ==
  Obj(<< <<Key("id"), IdOf(idx)>> >>
      \o [i \in 1..Len(RowFields) |-> <<Key(RowFields[i]), Get(row, RowFields[i])>>])

\* line 193: the placeholder row of the catch block
PlaceholderRow(error) ==
  Obj(<< <<Key("id"), Num("0")>>,
         <<Key("caseId"), Str(<<>>)>>,
         <<Key("product"), Str(<<>>)>>,
         <<Key("supplierPath"), Str(<<>>)>>,
         <<Key("totalCost"), Num("0")>>,
         <<Key("riskIndex"), Num("0")>>,
         <<Key("timeDelay"), Num("0")>>,
         <<Key("qualityScore"), Num("0")>>,
         <<Key("error"), OptGet(Get(error, "body"), "message")>> >>)

\* the TypeError lines 182-191 throw: dataRows has no map, or a row is null
TypeErrorThrown == Obj(<< <<Key("message"), Str(<<"TypeError">>)>> >>)

MapThrows(dataRows) ==
  \/ dataRows.t # "array"
  \/ \E i \in DOMAIN dataRows.v : Nullish(dataRows.v[i])

\* lines 181-193 after the Apex call resolved: the new value of this.results
ResultsOf(dataRows) ==
  IF MapThrows(dataRows)
  THEN Arr(<<PlaceholderRow(TypeErrorThrown)>>)
  ELSE Arr([i \in DOMAIN dataRows.v |-> MappedRow(dataRows.v[i], i - 1)])

InitGraphRagPaths ==
  /\ InitComponent
  /\ NoNormalization
  /\ strictMode = TRUE
  /\ globalCypherQuery = Undeclared
  /\ globalGraphData = Undeclared
  /\ server = "connecting"
  /\ mcpClient = 0
  /\ pc = [r \in Reqs |-> "idle"]
  /\ route = [r \in Reqs |-> "none"]
  /\ naturalLanguage = [r \in Reqs |-> Undefined]
  /\ cypher = [r \in Reqs |-> Undefined]
  /\ result = [r \in Reqs |-> Undefined]
  /\ graphData = [r \in Reqs |-> Undefined]
  /\ response = [r \in Reqs |-> NoResponse]
  /\ trace = [r \in Reqs |-> <<>>]

\* lines 173-175
handleQuestion(value) ==
  /\ question' = value
  /\ UNCHANGED <<loading, results, calls, envelope, normalized>>
  /\ UNCHANGED gateway
  /\ UNCHANGED globals

\* lines 178-180: runGateway up to the await of getMcpResponse
runGateway(c, mode) ==
  /\ calls[c].pc = "idle"
  /\ loading' = TRUE
  /\ calls' = [calls EXCEPT ![c] =
                 [pc |-> "awaiting", mode |-> mode, input |-> question, outcome |-> Undefined]]
  /\ UNCHANGED <<question, results, envelope, normalized>>
  /\ UNCHANGED gateway
  /\ UNCHANGED globals

\* getMcpResponse resolved: lines 181-191, the catch block if they throw, then
\* the finally block
RunGatewayResolves(c, apexResponse) ==
  /\ calls[c].pc = "awaiting"
  /\ results' = ResultsOf(DataRows(apexResponse))
  /\ loading' = FALSE
  /\ calls' = [calls EXCEPT ![c].pc = "resolved", ![c].outcome = apexResponse]
  /\ UNCHANGED <<question, envelope, normalized>>
  /\ UNCHANGED gateway
  /\ UNCHANGED globals

\* a runGateway whose catch block is its last: loading is reset only in the try
RunGatewayRejectsNoFinally(c, error) ==
  /\ calls[c].pc = "awaiting"
  /\ results' = Arr(<<PlaceholderRow(error)>>)
  /\ calls' = [calls EXCEPT ![c].pc = "rejected", ![c].outcome = error]
  /\ UNCHANGED <<question, loading, envelope, normalized>>
  /\ UNCHANGED gateway
  /\ UNCHANGED globals

\* getMcpResponse rejected: the catch block, then the finally block
RunGatewayRejects(c, error) ==
  /\ calls[c].pc = "awaiting"
  /\ results' = Arr(<<PlaceholderRow(error)>>)
  /\ loading' = FALSE
  /\ calls' = [calls EXCEPT ![c].pc = "rejected", ![c].outcome = error]
  /\ UNCHANGED <<question, envelope, normalized>>
  /\ UNCHANGED gateway
  /\ UNCHANGED globals

NextGraphRagPaths ==
  \/ \E value \in Questions : handleQuestion(value)
  \/ \E c \in Calls, mode \in Modes : runGateway(c, mode)
  \/ \E c \in Calls, apexResponse \in ApexResponses : RunGatewayResolves(c, apexResponse)
  \/ \E c \in Calls, error \in ApexErrors : RunGatewayRejects(c, error)

SpecGraphRagPaths == InitGraphRagPaths /\ [][NextGraphRagPaths]_vars

(***************************************************************************)
(* Properties                                                              *)
(***************************************************************************)
Body(r) == response[r].body

\* the keys of a sent body
BodyKeys(r) == {Body(r).v[i][1][1] : i \in DOMAIN Body(r).v}

Succeeded(r) == response[r].status = 200

Failed(r) == response[r].status = 500

\* the positions of the events of one kind for one step
At(r, op, step) == {i \in DOMAIN trace[r] : trace[r][i].op = op /\ trace[r][i].step = step}

Invoked(r, step) == At(r, "call", step) # {}

\* the positions where a step of the request failed: an outbound call rejected
\* or code of the gateway threw
Failures(r) == {i \in DOMAIN trace[r] : trace[r][i].op \in {"reject", "throw"}}

GatewayRoutes == {"method1", "method2", "no-rag"}

\* the steps of a route's own pipeline
StepsOf(rt) ==
  CASE rt = "method1" -> {"translate", "read_neo4j_cypher", "summarize"}
    [] rt = "no-rag" -> {"translate", "read_neo4j_cypher"}
    [] OTHER -> {"text2cypher", "summarize", "parse", "reference"}

\* C1: when a step of a request fails (translation, tool invocation, parsing
\* of the tool response, summarization), nothing of the request runs after it,
\* no step of another mode was tried, and the response is a 500 whose body is
\* {error: message}, without mode, cypher, rawGrounding or groundedAnswer.
C1_FailureAbortsRequest ==
  \A r \in Reqs :
    route[r] \in GatewayRoutes =>
      \A i \in Failures(r) :
        /\ i = Len(trace[r])
        /\ \A j \in DOMAIN trace[r] : trace[r][j].step \in StepsOf(route[r])
        /\ pc[r] = "done"
        /\ response[r].status = 500
        /\ response[r].sends = 1
        /\ BodyKeys(r) = {"error"}
        /\ Get(Body(r), "error").t = "string"

\* C1 witness: translation succeeded, the tool call rejected, a 500 was sent
C1_Witness ==
  \E r \in Reqs :
    /\ route[r] = "method1"
    /\ At(r, "return", "translate") # {}
    /\ At(r, "reject", "read_neo4j_cypher") # {}
    /\ Failed(r)

\* C2: a /no-rag request never invokes the summarizer, and the groundedAnswer
\* of its success response is the payload its read_neo4j_cypher call resolved
\* with.
C2_BypassReturnsRawPayload ==
  \A r \in Reqs :
    route[r] = "no-rag" =>
      /\ ~Invoked(r, "summarize")
      /\ Succeeded(r) =>
            \E i \in At(r, "resolve", "read_neo4j_cypher") :
              /\ Get(Body(r), "groundedAnswer") = trace[r][i].args[1]
              /\ At(r, "resolve", "read_neo4j_cypher") = {i}

\* C2 witness: a /no-rag request answered with a payload of content blocks
C2_Witness ==
  \E r \in Reqs :
    /\ route[r] = "no-rag"
    /\ Succeeded(r)
    /\ Get(Body(r), "groundedAnswer").t = "array"

Rank(step) ==
  CASE step = "translate" -> 1
    [] step = "read_neo4j_cypher" -> 2
    [] step = "summarize" -> 3
    [] OTHER -> 0

\* C3: in a /method1 request the steps are invoked in the order translate,
\* read_neo4j_cypher, summarize, each at most once; read_neo4j_cypher is
\* invoked after translateToCypher returned, with exactly the returned query;
\* the summarizer is invoked after the tool call resolved.
C3_DirectTranslateOrder ==
  \A r \in Reqs :
    route[r] = "method1" =>
      /\ \A i, j \in DOMAIN trace[r] :
            (i < j /\ trace[r][i].op = "call" /\ trace[r][j].op = "call")
              => (0 < Rank(trace[r][i].step) /\ Rank(trace[r][i].step) < Rank(trace[r][j].step))
      /\ \A j \in At(r, "call", "read_neo4j_cypher") :
            \E i \in At(r, "return", "translate") :
              i < j /\ trace[r][j].args = trace[r][i].args
      /\ \A j \in At(r, "call", "summarize") :
            \E i \in At(r, "resolve", "read_neo4j_cypher") : i < j

\* C3 witness: a /method1 request that ran all three steps, on a completion
\* that came fenced
C3_Witness ==
  \E r \in Reqs :
    /\ route[r] = "method1"
    /\ Succeeded(r)
    /\ \E i \in At(r, "resolve", "translate") : HasFence(trace[r][i].args[1].v)

\* the first block of a list of content blocks whose type is "text", if any
RECURSIVE FirstTextIn(_)
FirstTextIn(blocks) ==
  IF blocks = <<>> THEN Undefined
  ELSE IF OptGet(Head(blocks), "type") = Str(<<"text">>) THEN Head(blocks)
       ELSE FirstTextIn(Tail(blocks))

FirstTextBlock(content) == IF content.t = "array" THEN FirstTextIn(content.v) ELSE Undefined

\* the query a tool response carries: the one of its first text block
CarriedQuery(content) == ExtractBlock(FirstTextBlock(content)).cypher

\* the rows a tool response carries: those of its first text block, or the
\* ones of a structured payload
CarriedRows(content) ==
  IF content.t = "array" THEN ExtractBlock(FirstTextBlock(content)).graphData
  ELSE Method1Data(content)

\* the content a request's own tool call resolved with
OwnContent(r) == trace[r][CHOOSE i \in At(r, "resolve", ToolOf(route[r])) : TRUE].args[1]

\* the value a request's own translateToCypher returned
OwnTranslation(r) == trace[r][CHOOSE i \in At(r, "return", "translate") : TRUE].args[1]

\* the arguments a request gave the summarizer
SummarizeArgs(r) == trace[r][CHOOSE i \in At(r, "call", "summarize") : TRUE].args

\* what the code of a route derives from the request's own tool response
OwnQuery(r) ==
  CASE route[r] = "method2" -> ExtractMethod2(OwnContent(r)).cypher
    [] route[r] = "readme-method2" -> ReadmeExtract(OwnContent(r)).cypherQuery
    [] OTHER -> OwnTranslation(r)

OwnGrounding(r) ==
  CASE route[r] = "method2" -> ExtractMethod2(OwnContent(r)).graphData
    [] route[r] = "readme-method2" -> ReadmeExtract(OwnContent(r)).graphData
    [] route[r] = "method1" -> OwnContent(r)
    [] OTHER -> naturalLanguage[r]

\* C4: under every interleaving of requests over the shared connection, the
\* cypher and rawGrounding of a success response, and what the summarizer was
\* given, come from the request's own input and its own tool response.
C4_NoCrossTalk ==
  \A r \in Reqs :
    Succeeded(r) =>
      /\ Get(Body(r), "cypher") = OwnQuery(r)
      /\ Get(Body(r), "rawGrounding") = OwnGrounding(r)
      /\ Invoked(r, "summarize") => SummarizeArgs(r)[1] = naturalLanguage[r]

\* C5: in all three modes the cypher of a success response is the query the
\* stub produced, and rawGrounding and groundedAnswer reflect the rows the tool
\* stub returned: rawGrounding is the tool payload or its rows, groundedAnswer
\* is the payload or its rows, or the summary made from those rows.
C5_FieldsReflectStubs ==
  \A r \in Reqs :
    (route[r] \in GatewayRoutes /\ Succeeded(r)) =>
      /\ Get(Body(r), "cypher") =
           (IF route[r] = "method2" THEN CarriedQuery(OwnContent(r)) ELSE OwnTranslation(r))
      /\ Get(Body(r), "rawGrounding") \in {OwnContent(r), CarriedRows(OwnContent(r))}
      /\ IF route[r] = "no-rag"
         THEN Get(Body(r), "groundedAnswer") \in {OwnContent(r), CarriedRows(OwnContent(r))}
         ELSE SummarizeArgs(r)[2] = CarriedRows(OwnContent(r))

\* the label a route answers under
RouteLabel(rt) == Str(<<rt>>)

\* no outbound call of the request rejected
AllCallsResolved(r) == \A i \in DOMAIN trace[r] : trace[r][i].op # "reject"

\* the values the outbound calls resolved with are usable: the completion's
\* content is a string, and the first content block of /method2's tool
\* response, when it is a text block, holds the JSON text of a non-null value
UsableValues(r) ==
  /\ \A i \in At(r, "resolve", "translate") : trace[r][i].args[1].t = "string"
  /\ \A i \in At(r, "resolve", "text2cypher") :
        OptGet(OptFirst(trace[r][i].args[1]), "type") = Str(<<"text">>)
          => /\ JsonParse(Get(OptFirst(trace[r][i].args[1]), "text")).ok
             /\ ~Nullish(JsonParse(Get(OptFirst(trace[r][i].args[1]), "text")).val)

SuccessShape(r) ==
  /\ Succeeded(r)
  /\ response[r].sends = 1
  /\ Get(Body(r), "mode") = RouteLabel(route[r])
  /\ route[r] = "method1" =>
        /\ Get(Body(r), "groundedAnswer") \in SummaryTexts
        /\ Get(Body(r), "groundedAnswer").v # <<>>
        /\ \E i \in At(r, "resolve", "summarize") :
              trace[r][i].args[1] = Get(Body(r), "groundedAnswer")

\* C6 as stated: a finished request none of whose outbound calls failed got a
\* success response under its route's label, for /method1 with the
\* summarizer's non-empty string as groundedAnswer.
C6_AllCallsSucceedGivesSuccess ==
  \A r \in Reqs :
    (route[r] \in GatewayRoutes /\ pc[r] = "done" /\ AllCallsResolved(r)) => SuccessShape(r)

\* C6 amended: the same, for the requests whose calls also resolved with
\* usable values.
C6_UsableCallsGiveSuccess ==
  \A r \in Reqs :
    (route[r] \in GatewayRoutes /\ pc[r] = "done" /\ AllCallsResolved(r) /\ UsableValues(r))
      => SuccessShape(r)

\* C6 witness: a /method1 request all of whose calls resolved, answered with
\* the summary
C6_Witness ==
  \E r \in Reqs :
    /\ route[r] = "method1"
    /\ pc[r] = "done"
    /\ AllCallsResolved(r)
    /\ At(r, "resolve", "summarize") # {}
    /\ Get(Body(r), "groundedAnswer") = Str(<<"answer">>)

\* a query fit to execute or return: a non-empty string without a fence
GoodQuery(q) == q.t = "string" /\ q.v # <<>> /\ ~HasFence(q.v)

\* C7: every query passed to read_neo4j_cypher, and every cypher of a success
\* response, is a non-empty string without a code fence.
C7_QueryNonEmptyAndFenceFree ==
  \A r \in Reqs :
    route[r] \in GatewayRoutes =>
      /\ \A i \in At(r, "call", "read_neo4j_cypher") : GoodQuery(trace[r][i].args[1])
      /\ Succeeded(r) => GoodQuery(Get(Body(r), "cypher"))

\* a text2cypher response from which no query can be extracted: no text block,
\* or a text block whose parsed payload has no query field
NoQueryIn(content) ==
  \/ FirstTextBlock(content) = Undefined
  \/ /\ ExtractBlock(FirstTextBlock(content)).ok
     /\ ~Truthy(ExtractBlock(FirstTextBlock(content)).cypher)

\* C8: a /method2 request whose text2cypher response carries no query does not
\* invoke the summarizer and does not get a success response.
C8_NoQueryIsAFailure ==
  \A r \in Reqs :
    (route[r] = "method2" /\ At(r, "resolve", "text2cypher") # {} /\ NoQueryIn(OwnContent(r)))
      => /\ ~Invoked(r, "summarize")
         /\ ~Succeeded(r)

\* C9: a /method2 request invokes text2cypher exactly once, first, with
\* {query: naturalLanguage}; it never invokes the translation or
\* read_neo4j_cypher; it invokes the summarizer at most once, after the tool
\* call resolved, with the rows and the query extracted from that response.
C9_RetrievalAssistedCalls ==
  \A r \in Reqs :
    route[r] = "method2" =>
      /\ At(r, "call", "text2cypher") = {1}
      /\ trace[r][1].args = <<naturalLanguage[r]>>
      /\ \A i \in DOMAIN trace[r] : trace[r][i].step \notin {"translate", "read_neo4j_cypher"}
      /\ Cardinality(At(r, "call", "summarize")) <= 1
      /\ \A j \in At(r, "call", "summarize") :
            \E i \in At(r, "resolve", "text2cypher") :
              /\ i < j
              /\ trace[r][j].args =
                   <<naturalLanguage[r],
                     ExtractMethod2(trace[r][i].args[1]).graphData,
                     ExtractMethod2(trace[r][i].args[1]).cypher>>

\* C9 witness: a /method2 request that gave the summarizer a query and rows
C9_Witness ==
  \E r \in Reqs :
    /\ route[r] = "method2"
    /\ Invoked(r, "summarize")
    /\ SummarizeArgs(r)[2] = Arr(<<RowA>>)
    /\ SummarizeArgs(r)[3] = Str(<<"M">>)

\* C10: when a tool response is a list of content blocks with a text block,
\* the query and the rows a summarizing request uses are those of the first
\* text block, wherever in the list it sits.
C10_FirstTextBlockAnywhere ==
  \A r \in Reqs :
    (/\ route[r] \in {"method1", "method2"}
     /\ Invoked(r, "summarize")
     /\ FirstTextBlock(OwnContent(r)) # Undefined
     /\ ExtractBlock(FirstTextBlock(OwnContent(r))).ok)
      => /\ SummarizeArgs(r)[2] = CarriedRows(OwnContent(r))
         /\ route[r] = "method2" => SummarizeArgs(r)[3] = CarriedQuery(OwnContent(r))

\* the payload the envelope's first text block carries
EnvelopePayload == JsonParse(Get(FirstTextBlock(envelope), "text")).val

\* the first defined value of a list of values
RECURSIVE FirstDefined(_)
FirstDefined(values) ==
  IF values = <<>> THEN Undefined
  ELSE IF ~Nullish(Head(values)) THEN Head(values)
       ELSE FirstDefined(Tail(values))

\* the reference order for the query: the direct query field, then "cypher",
\* then "query", then the nested metadata field
ReferenceQuery(parsed) ==
  FirstDefined(<< Get(parsed, "cypherQuery"), Get(parsed, "cypher"), Get(parsed, "query"),
                  OptGet(Get(parsed, "metadata"), "cypher") >>)

\* the reference order for the rows: "records", else "rows", else "data"
ReferenceRows(parsed) ==
  FirstDefined(<< Get(parsed, "records"), Get(parsed, "rows"), Get(parsed, "data") >>)

\* C11: for every parsed payload of the bounded set, the query and the rows
\* the extraction assigns are the first defined values in the reference order:
\* direct query field, "cypher", "query", nested metadata; "records", "rows",
\* "data".
C11_ExtractionFollowsReferenceOrder ==
  normalized.by # "none" =>
    /\ normalized.ok
    /\ normalized.cypher = ReferenceQuery(EnvelopePayload)
    /\ normalized.graphData = ReferenceRows(EnvelopePayload)

\* C12: the extraction of Gateway3App.js, applied to a list of content blocks
\* whose text block is the JSON text of {cypher: q, rows: r}, yields exactly
\* the query q and the rows r.
C12_RoundTrip ==
  \A q \in RoundTripQueries, r \in RoundTripRows :
    (normalized.by = "gateway" /\ \E p \in RoundTripPayloads(q, r) : envelope = EnvelopeOf(p))
      => /\ normalized.ok
         /\ normalized.cypher = Str(q)
         /\ normalized.graphData = r

\* C12 witness: the payload of the example, normalized by the gateway
C12_Witness ==
  /\ normalized.by = "gateway"
  /\ envelope = EnvelopeOf(Obj(<< <<Key("cypher"),
                                    Str(<<"MATCH", SP, "(c:Case)", SP, "RETURN", SP, "c">>)>>,
                                  <<Key("rows"), Arr(<<RowA>>)>> >>))
  /\ normalized.cypher = Str(<<"MATCH", SP, "(c:Case)", SP, "RETURN", SP, "c">>)
  /\ normalized.graphData = Arr(<<RowA>>)

\* the tool calls of a request: the positions of its callTool events
ToolEvents(r) ==
  {i \in DOMAIN trace[r] : trace[r][i].step \in {"read_neo4j_cypher", "text2cypher"}}

C14_ConnectOnceBeforeAccepting ==
  /\ mcpClient \in {0, 1}
  /\ server = "listening" <=> mcpClient = 1
  /\ \A r \in Reqs : pc[r] # "idle" => (server = "listening" /\ mcpClient = 1)
  /\ \A r \in Reqs : \A i \in ToolEvents(r) : trace[r][i].conn = 1

\* C14 witness: every request has called a tool over the one connection
C14_Witness ==
  /\ mcpClient = 1
  /\ \A r \in Reqs : \E i \in ToolEvents(r) : trace[r][i].op = "call" /\ trace[r][i].conn = 1

\* the content the translation call of a request resolved with
OwnCompletion(r) == trace[r][CHOOSE i \in At(r, "resolve", "translate") : TRUE].args[1]

C16_HealthAnswersOk ==
  \A r \in Reqs :
    (route[r] = "health" /\ pc[r] = "done") =>
      /\ response[r].status = 200
      /\ Body(r) = Obj(<< <<Key("ok"), Bool("true")>> >>)
      /\ trace[r] = <<>>

\* an outbound call of the request has not settled yet
Pending(r) ==
  Cardinality({i \in DOMAIN trace[r] : trace[r][i].op = "call"})
    > Cardinality({i \in DOMAIN trace[r] : trace[r][i].op \in {"resolve", "reject"}})

\* C17: a request to one of the three routes never sends twice, and once all
\* its outbound calls have resolved or rejected it has sent exactly one
\* response: a 200 body without an error key, or a 500 body that is {error}.
C17_ExactlyOneResponse ==
  \A r \in Reqs :
    route[r] \in GatewayRoutes =>
      /\ response[r].sends <= 1
      /\ ~Pending(r) =>
            /\ response[r].sends = 1
            /\ \/ Succeeded(r) /\ "error" \notin BodyKeys(r)
               \/ Failed(r) /\ BodyKeys(r) = {"error"}

\* C17 witness: one request answered 200 and another answered 500, once each
C17_Witness ==
  \E r, s \in Reqs :
    /\ route[r] \in GatewayRoutes /\ route[s] \in GatewayRoutes
    /\ ~Pending(r) /\ ~Pending(s)
    /\ Succeeded(r) /\ response[r].sends = 1
    /\ Failed(s) /\ response[s].sends = 1

\* a runGateway call is awaiting getMcpResponse
InFlight(c) == calls[c].pc = "awaiting"

\* C18: whenever no runGateway call is in flight loading is false; a call that
\* starts sets loading to true; a call that finishes, resolved or rejected,
\* sets it to false; and a rejected call leaves results as the single
\* placeholder row that carries the message of the error.
C18_LoadingAndPlaceholder ==
  /\ []((\A c \in Calls : ~InFlight(c)) => loading = FALSE)
  /\ [][\A c \in Calls :
          /\ (calls[c].pc = "idle" /\ InFlight(c)') => loading' = TRUE
          /\ (InFlight(c) /\ ~InFlight(c)') => loading' = FALSE
          /\ (InFlight(c) /\ calls'[c].pc = "rejected") =>
                /\ results'.v = <<PlaceholderRow(calls'[c].outcome)>>
                /\ Get(results'.v[1], "error") = Get(Get(calls'[c].outcome, "body"), "message")
                /\ Get(results'.v[1], "error").t = "string"]_vars

\* C18 witness: a call rejected after another had filled results with rows;
\* nothing is in flight, loading is false, results is the placeholder row with
\* the message
C18_Witness ==
  \E c, d \in Calls :
    /\ calls[c].pc = "rejected"
    /\ calls[d].pc = "resolved"
    /\ loading = FALSE
    /\ Len(results.v) = 1
    /\ Get(results.v[1], "error") = Str(<<"e1">>)

====
